---- MODULE Spec2Model ----
(***************************************************************************)
(* Model of scripts/docent_ingest.py: the conversion of an OpenHands event *)
(* history to Docent messages, the construction of an AgentRun with its    *)
(* metadata and scores, and the batch ingestion loop.                      *)
(*                                                                         *)
(* Python values are encoded as follows.  A text is a TLA+ string.  A key  *)
(* that is missing from a mapping is the string Absent, a JSON null is the *)
(* string None.  A mapping (dict) is a function from the keys it holds to  *)
(* their values.  A place that holds a mapping, a null or nothing is a     *)
(* record [is |-> "dict", d |-> mapping], [is |-> "null"] or               *)
(* [is |-> "absent"].                                                      *)
(***************************************************************************)
EXTENDS Integers, Sequences, FiniteSets, TLC

VARIABLES
    \* convert_openhands_history_to_messages: the locals of the scan
    event,              \* the loop variable: the event consumed last
    messages,           \* the list of messages built so far
    pending_tool_call,  \* <<>> (None) or <<function, call_id>>
    call_counter,       \* the next call number
    consumed,           \* how many events of the history were consumed
    pc,                 \* "scan", "returned" (return messages) or "raised"
    scanned,            \* the events consumed by the running call, where the
                        \* specification records them
    entered,            \* how many calls of the function were entered
    \* run_ingestion and ingest_trajectories
    ipc,                \* where the ingestion stands
    failure,            \* why it ended early, or "none"
    logs_dir,           \* None, or "logs" for a directory that exists
    run_report,         \* the run-level report: a mapping, null or absent
    line,               \* the trajectory line read last, with the state of
                        \* the instance report file of its instance
    line_no,            \* how many lines were read
    agent_runs,         \* the AgentRuns prepared so far
    parse_errors,       \* how many lines were reported as "Error parsing"
    batch_size,         \* the caller's batch size
    i,                  \* the index of the next batch
    submitted           \* the batches handed to add_agent_runs, in order

scanVars == <<event, messages, pending_tool_call, call_counter, consumed, pc,
              scanned, entered>>

ingestVars == <<ipc, failure, logs_dir, run_report, line, line_no, agent_runs,
                parse_errors, batch_size, i, submitted>>

vars == <<scanVars, ingestVars>>

\* The longest event history the scan is run on.
MaxLen == 3

\* The longest event history, and the most calls, where a specification
\* records the history and calls the function again.
MaxHistory == 4
MaxCalls == 2

\* The most lines a trajectory file holds, and the largest batch size.
MaxLines == 2
MaxBatch == 2

-----------------------------------------------------------------------------
\* Values

Absent == "<absent>"
None == "<None>"

NoMap == [is |-> "absent"]
NullMap == [is |-> "null"]
Map(d) == [is |-> "dict", d |-> d]
EmptyDict == [k \in {} |-> ""]

\* Python truthiness of a text-or-None value
Truthy(v) == v \notin {Absent, None, ""}

\* x or y
Or(x, y) == IF Truthy(x) THEN x ELSE y

\* d.get(k, default) on a mapping
Get(d, k, default) == IF k \in DOMAIN d THEN d[k] ELSE default

\* f"{v}": None renders as the text None
Fmt(v) == IF v = None THEN "None" ELSE v

\* The backquote, which a TLA+ string cannot hold, is written as ^
BQ == "^"
Fence == BQ \o BQ \o BQ

\* str(x) of an extras value: a mapping of at most one key, or None
StrOf(m) ==
    IF m.is = "null" THEN "None"
    ELSE IF DOMAIN m.d = {} THEN "{}"
    ELSE LET k == CHOOSE x \in DOMAIN m.d : TRUE
         IN "{'" \o k \o "': '" \o m.d[k] \o "'}"

-----------------------------------------------------------------------------
\* Messages (docent.data_models.chat)

ToolCall(id, function, arguments, view) ==
    [id |-> id, function |-> function, arguments |-> arguments, view |-> view]

UserMessage(content) ==
    [role |-> "user", content |-> content, tool_calls |-> <<>>,
     tool_call_id |-> None, function |-> None]

AssistantMessage(content, tool_calls) ==
    [role |-> "assistant", content |-> content, tool_calls |-> tool_calls,
     tool_call_id |-> None, function |-> None]

ToolMessage(content, tool_call_id, function) ==
    [role |-> "tool", content |-> content, tool_calls |-> <<>>,
     tool_call_id |-> tool_call_id, function |-> function]

-----------------------------------------------------------------------------
\* Events of an OpenHands history

Ev(source, action, observation, args, content, message, extras) ==
    [source |-> source, action |-> action, observation |-> observation,
     args |-> args, content |-> content, message |-> message,
     extras |-> extras]

\* An event none of whose keys is present: {}
EmptyEvent == Ev(Absent, Absent, Absent, NoMap, Absent, Absent, NoMap)

ActionEv(source, action, args) ==
    Ev(source, action, Absent, args, Absent, Absent, NoMap)

ObservationEv(source, observation, content, extras) ==
    Ev(source, Absent, observation, NoMap, content, Absent, extras)

\* action == "system", from any source
SystemEvents == {ActionEv("agent", "system", NoMap)}

\* source == "user" and action == "message"
UserMessageEvents ==
    {ActionEv("user", "message", a) :
        a \in {NullMap, Map([content |-> ""]), Map([content |-> " "]),
               Map([content |-> "fix bug"])}}
    \cup {Ev("user", "message", Absent, NoMap, Absent, "fix bug", NoMap),
          Ev("user", "message", "run", Map([content |-> "fix bug"]), Absent,
             Absent, NoMap)}

\* source == "agent" and an action other than "message"
AgentActionEvents ==
    {ActionEv("agent", "run", a) :
        a \in {NullMap, Map([command |-> "pytest"]),
               Map([thought |-> "run tests", command |-> "pytest"])}}
    \cup {ActionEv("agent", "read", Map([path |-> "a.py"]))}
    \cup {ActionEv("agent", "write", a) :
            a \in {Map([path |-> "a.py", content |-> "x = 1"]),
                   Map([path |-> "a.py", content |-> None])}}
    \cup {ActionEv("agent", "think", a) :
            a \in {NoMap, Map([thought |-> "plan"])}}
    \cup {ActionEv("agent", "finish", a) :
            a \in {Map([thought |-> None]), Map([thought |-> "done"])}}
    \cup {ActionEv("agent", "edit", Map([path |-> "a.py"]))}
    \cup {Ev("agent", "run", "run", Map([command |-> "pytest"]), Absent,
             Absent, NoMap)}

\* source == "agent" and action == "message"
AgentMessageEvents ==
    {ActionEv("agent", "message", a) :
        a \in {NullMap, Map([content |-> ""]), Map([content |-> " "]),
               Map([content |-> "all done"])}}

\* events with an observation tag and no action
ObservationEvents ==
    {ObservationEv("agent", "run", c, NoMap) : c \in {Absent, None, "2 passed"}}
    \cup {ObservationEv("environment", "run", "2 passed", NoMap),
          ObservationEv("agent", "run", Absent, Map([exit_code |-> "0"]))}

\* events no rule recognises: no tags at all, an empty action or observation
\* tag, an action from a source that is neither user nor agent
OtherEvents ==
    {EmptyEvent,
     ActionEv("agent", "", NoMap),
     Ev(Absent, "run", "run", Map([command |-> "pytest"]), "2 passed",
        Absent, NoMap),
     ObservationEv("environment", "", "2 passed", NoMap)}

Events ==
    SystemEvents \cup UserMessageEvents \cup AgentActionEvents
    \cup AgentMessageEvents \cup ObservationEvents \cup OtherEvents

-----------------------------------------------------------------------------
\* convert_openhands_history_to_messages

PreviewLimit == 500
ObservationLimit == 5000

\* the locals messages, pending_tool_call, call_counter, and whether the
\* body raised
Conv(m, p, c) ==
    [messages |-> m, pending_tool_call |-> p, call_counter |-> c,
     raised |-> FALSE]

Raise(st) == [st EXCEPT !.raised = TRUE]

InitConv == Conv(<<>>, <<>>, 1)

Source(e) == IF e.source = Absent THEN "" ELSE e.source
Action(e) == IF e.action = Absent THEN None ELSE e.action
Observation(e) == IF e.observation = Absent THEN None ELSE e.observation
Args(e) == IF e.args.is = "absent" THEN Map(EmptyDict) ELSE e.args
Content(e) ==
    Or(IF e.content = Absent THEN None ELSE e.content,
       IF e.message = Absent THEN "" ELSE e.message)

IsSystem(e) == Action(e) = "system"
IsUserMessage(e) == Source(e) = "user" /\ Action(e) = "message"
\* a variant that takes every action of the agent, "message" included
IsAgentActionAnyAction(e) == Source(e) = "agent" /\ Truthy(Action(e))

IsAgentAction(e) ==
    Source(e) = "agent" /\ Truthy(Action(e)) /\ Action(e) # "message"
IsAgentMessage(e) == Source(e) = "agent" /\ Action(e) = "message"
\* a variant that attaches an observation whether or not a call is pending
IsObservationAnyPending(e, pending) == Truthy(Observation(e))

IsObservation(e, pending) == Truthy(Observation(e)) /\ pending # <<>>

\* a variant that numbers the calls from 0
CallIdFromZero(counter) == "call_" \o ToString(counter - 1)

\* f"call_{call_counter}"
CallId(counter) == "call_" \o ToString(counter)

\* a variant that takes an id and leaves the counter where it was
InvokeSameCounter(st, thought, function, arguments, view) ==
    LET call_id == "call_" \o ToString(st.call_counter)
    IN  Conv(Append(st.messages,
                    AssistantMessage(thought,
                        <<ToolCall(call_id, function, arguments, view)>>)),
             <<function, call_id>>,
             st.call_counter)

\* a variant in which a call that is pending stays the pending one
InvokeKeepsEarlier(st, thought, function, arguments, view) ==
    LET call_id == "call_" \o ToString(st.call_counter)
    IN  Conv(Append(st.messages,
                    AssistantMessage(thought,
                        <<ToolCall(call_id, function, arguments, view)>>)),
             IF st.pending_tool_call # <<>> THEN st.pending_tool_call
             ELSE <<function, call_id>>,
             st.call_counter + 1)

\* the three steps every invocation branch repeats: take the id, append the
\* AssistantMessage with the one tool call, set the pending call
Invoke(st, thought, function, arguments, view) ==
    LET call_id == CallId(st.call_counter)
    IN  Conv(Append(st.messages,
                    AssistantMessage(thought,
                        <<ToolCall(call_id, function, arguments, view)>>)),
             <<function, call_id>>,
             st.call_counter + 1)

\* a variant that cuts a text of exactly the limit as well
WritePreviewFromLimit(text) ==
    IF Len(text) >= PreviewLimit
    THEN SubSeq(text, 1, PreviewLimit) \o "..."
    ELSE text

\* content[:500] + "..." if len(content) > 500 else content
WritePreview(text) ==
    IF Len(text) > PreviewLimit
    THEN SubSeq(text, 1, PreviewLimit) \o "..."
    ELSE text

Truncate(text) ==
    IF Len(text) > ObservationLimit
    THEN SubSeq(text, 1, ObservationLimit) \o "\n... (truncated)"
    ELSE text

\* text.strip() == ""
IsBlank(text) == \A n \in 1..Len(text) : SubSeq(text, n, n) = " "

\* a variant that drops a whitespace-only text as it drops an empty one
OnUserMessageStripped(st, e) ==
    IF Args(e).is = "null" THEN Raise(st)
    ELSE LET msg_content == Or(Get(Args(e).d, "content", ""), Content(e))
         IN  IF Truthy(msg_content) /\ ~IsBlank(msg_content)
             THEN [st EXCEPT !.messages = Append(@, UserMessage(msg_content))]
             ELSE st

\* a variant in which a message of the user clears the pending call
OnUserMessageClearsPending(st, e) ==
    IF Args(e).is = "null" THEN Raise(st)
    ELSE LET msg_content == Or(Get(Args(e).d, "content", ""), Content(e))
         IN  Conv(IF Truthy(msg_content)
                  THEN Append(st.messages, UserMessage(msg_content))
                  ELSE st.messages,
                  <<>>, st.call_counter)

\* a variant that puts the message of the user at the head of the list
OnUserMessageAtHead(st, e) ==
    IF Args(e).is = "null" THEN Raise(st)
    ELSE LET msg_content == Or(Get(Args(e).d, "content", ""), Content(e))
         IN  IF Truthy(msg_content)
             THEN [st EXCEPT !.messages = <<UserMessage(msg_content)>> \o @]
             ELSE st

OnUserMessage(st, e) ==
    IF Args(e).is = "null" THEN Raise(st)
    ELSE LET msg_content == Or(Get(Args(e).d, "content", ""), Content(e))
         IN  IF Truthy(msg_content)
             THEN [st EXCEPT !.messages = Append(@, UserMessage(msg_content))]
             ELSE st

OnAgentAction(st, e) ==
    IF Args(e).is = "null" THEN Raise(st)
    ELSE
    LET args == Args(e).d
        action == Action(e)
        thought == Or(Get(args, "thought", ""), "")
    IN  CASE action = "run" ->
             LET command == Get(args, "command", "")
             IN  Invoke(st, thought, "bash", [command |-> command],
                        Fence \o "bash\n" \o Fmt(command) \o "\n" \o Fence)
          [] action = "read" ->
             LET path == Get(args, "path", "")
             IN  Invoke(st, thought, "read_file", [path |-> path],
                        "Reading file: " \o BQ \o Fmt(path) \o BQ)
          [] action = "write" ->
             LET path == Get(args, "path", "")
                 content == Get(args, "content", "")
             IN  IF content = None THEN Raise(st)
                 ELSE Invoke(st, thought, "write_file", [path |-> path],
                             "Writing to file: " \o BQ \o Fmt(path) \o BQ
                             \o "\n" \o Fence \o "\n"
                             \o WritePreview(content) \o "\n" \o Fence)
          [] action = "think" ->
             Conv(Append(st.messages,
                         AssistantMessage("**Thinking:** " \o thought, <<>>)),
                  <<>>, st.call_counter)
          [] action = "finish" ->
             LET final_thought == Or(Get(args, "thought", ""), thought)
             IN  Conv(Append(st.messages,
                             AssistantMessage("**Finished:** " \o final_thought,
                                              <<>>)),
                      <<>>, st.call_counter)
          [] OTHER ->
             Invoke(st, thought, action, args, "Action: " \o action)

\* a variant that leaves the pending call as it is
OnAgentMessageKeepsPending(st, e) ==
    IF Args(e).is = "null" THEN Raise(st)
    ELSE LET msg_content == Or(Get(Args(e).d, "content", ""), Content(e))
         IN  Conv(IF Truthy(msg_content)
                  THEN Append(st.messages, AssistantMessage(msg_content, <<>>))
                  ELSE st.messages,
                  st.pending_tool_call, st.call_counter)

OnAgentMessage(st, e) ==
    IF Args(e).is = "null" THEN Raise(st)
    ELSE LET msg_content == Or(Get(Args(e).d, "content", ""), Content(e))
         IN  Conv(IF Truthy(msg_content)
                  THEN Append(st.messages, AssistantMessage(msg_content, <<>>))
                  ELSE st.messages,
                  <<>>, st.call_counter)

\* a variant that leaves the call pending after its result was attached
OnObservationKeepsPending(st, e) ==
    LET content == IF e.content = Absent THEN "" ELSE e.content
        obs_content == IF ~Truthy(content) /\ e.extras.is # "absent"
                       THEN StrOf(e.extras)
                       ELSE content
    IN  IF st.pending_tool_call = <<>> \/ obs_content = None THEN Raise(st)
        ELSE Conv(Append(st.messages,
                         ToolMessage(Truncate(obs_content),
                                     st.pending_tool_call[2],
                                     st.pending_tool_call[1])),
                  st.pending_tool_call, st.call_counter)

OnObservation(st, e) ==
    LET func_name == IF st.pending_tool_call = <<>> THEN None
                     ELSE st.pending_tool_call[1]
        call_id == IF st.pending_tool_call = <<>> THEN None
                   ELSE st.pending_tool_call[2]
        content == IF e.content = Absent THEN "" ELSE e.content
        obs_content == IF ~Truthy(content) /\ e.extras.is # "absent"
                       THEN StrOf(e.extras)
                       ELSE content
    IN  IF st.pending_tool_call = <<>> \/ obs_content = None THEN Raise(st)
        ELSE Conv(Append(st.messages,
                         ToolMessage(Truncate(obs_content), call_id, func_name)),
                  <<>>, st.call_counter)

\* the body of the loop for one event
ConvertEvent(st, e) ==
    IF IsSystem(e) THEN st
    ELSE IF IsUserMessage(e) THEN OnUserMessage(st, e)
    ELSE IF IsAgentAction(e) THEN OnAgentAction(st, e)
    ELSE IF IsAgentMessage(e) THEN OnAgentMessage(st, e)
    ELSE IF IsObservation(e, st.pending_tool_call) THEN OnObservation(st, e)
    ELSE st

\* the whole loop, from the locals st: a raise ends it
RECURSIVE ConvertFrom(_, _)
ConvertFrom(st, history) ==
    IF history = <<>> \/ st.raised THEN st
    ELSE ConvertFrom(ConvertEvent(st, Head(history)), Tail(history))

convert_openhands_history_to_messages(history) == ConvertFrom(InitConv, history)

-----------------------------------------------------------------------------
\* Trajectories and reports

List(h) == [is |-> "list", d |-> h]

MapTruthy(m) == m.is = "dict" /\ DOMAIN m.d # {}

Traj(instance_id, history, metadata, metrics, instance, test_result) ==
    [instance_id |-> instance_id, history |-> history, metadata |-> metadata,
     metrics |-> metrics, instance |-> instance, test_result |-> test_result]

PlainTraj(instance_id, history) ==
    Traj(instance_id, history, NoMap, NoMap, NoMap, NoMap)

UserSays == ActionEv("user", "message", Map([content |-> "fix bug"]))
RunsTests ==
    ActionEv("agent", "run", Map([thought |-> "run tests", command |-> "pytest"]))
TestsPassed == ObservationEv("agent", "run", "2 passed", NoMap)

\* the trajectories a line may hold: with and without an instance id, with
\* histories that are absent, null, empty, without any message, with
\* messages, or with an event whose args is null; and with the optional
\* sub-objects present in full, in part or not at all
Trajectories ==
    {PlainTraj(id, List(<<UserSays>>)) : id \in {Absent, None, "", "iid"}}
    \cup {PlainTraj("iid", h) :
            h \in {NoMap, NullMap, List(<<>>),
                   List(<<ActionEv("agent", "system", NoMap), TestsPassed>>),
                   List(<<UserSays, RunsTests, TestsPassed>>),
                   List(<<UserSays, ActionEv("user", "message", NullMap)>>)}}
    \cup {Traj("iid", List(<<UserSays>>),
               Map([agent_class |-> "CodeActAgent",
                    llm_config |-> [model |-> "gpt-4o"]]),
               Map([accumulated_cost |-> "0.25"]),
               Map([repo |-> "numpy/numpy", api |-> "np.add"]),
               Map([git_patch |-> "diff --git"])),
          Traj("iid", List(<<UserSays>>),
               Map([llm_config |-> [temperature |-> "0"]]),
               Map(EmptyDict),
               Map([repo |-> "numpy/numpy"]),
               Map([git_patch |-> ""])),
          Traj("iid", List(<<UserSays>>),
               Map([agent_class |-> None, llm_config |-> [model |-> None]]),
               NullMap,
               Map([repo |-> None, api |-> "np.add"]),
               NullMap)}

\* the state of a report file: missing, not JSON, or JSON holding a mapping
Missing == [is |-> "missing"]
Malformed == [is |-> "malformed"]
Json(d) == [is |-> "json", d |-> d]

FullEntry ==
    [test_passed |-> TRUE, opt_base |-> FALSE, opt_commit |-> TRUE,
     opt_main |-> TRUE, patch_successfully_applied |-> TRUE,
     opt_stats |-> [gm_speedup_patch_base |-> "1.5",
                    gm_speedup_patch_commit |-> "0.9"]]

\* logs_dir/<instance_id>/report.json
InstanceReportFiles ==
    {Missing, Malformed,
     Json([other |-> [test_passed |-> TRUE]]),
     Json([iid |-> EmptyDict]),
     Json([iid |-> [test_passed |-> TRUE, opt_base |-> TRUE]]),
     Json([iid |-> [patch_successfully_applied |-> TRUE,
                    opt_stats |-> [gm_speedup_patch_base |-> "1.5"]]]),
     Json([iid |-> FullEntry])}

SetNames ==
    <<"passed_ids", "opt_base_ids", "test_failed_ids", "patch_failed_ids",
      "error_ids">>

\* instance_sets whose sets from the n-th on hold iid, the earlier ones
\* holding another id
SetsFrom(n) ==
    [k \in {SetNames[j] : j \in 1..5} |->
        IF \E j \in n..5 : SetNames[j] = k THEN {"iid", "other"} ELSE {"other"}]

\* the contents a run-level report may have
RunReports ==
    {Map(EmptyDict), Map([summary |-> [score |-> "0.5"]]),
     Map([instance_sets |-> [passed_ids |-> {"iid"}]]),
     Map([instance_sets |-> [test_failed_ids |-> {"other"},
                             error_ids |-> {"iid"}]])}
    \cup {Map([instance_sets |-> SetsFrom(n)]) : n \in 1..6}

-----------------------------------------------------------------------------
\* load_gso_report, build_agent_run

\* the entry of instance_id in the report file, {} when there is none
load_gso_report(file, instance_id) ==
    IF file.is = "missing" THEN EmptyDict
    ELSE IF file.is = "malformed" THEN EmptyDict
    ELSE Get(file.d, instance_id, EmptyDict)

\* a variant that takes patch_applied from a key the report does not have
InstanceScoresWrongKey(instance_report) ==
    LET scores ==
            [test_passed |-> Get(instance_report, "test_passed", FALSE),
             opt_base |-> Get(instance_report, "opt_base", FALSE),
             opt_commit |-> Get(instance_report, "opt_commit", FALSE),
             opt_main |-> Get(instance_report, "opt_main", FALSE),
             patch_applied |-> Get(instance_report, "patch_applied", FALSE)]
        opt_stats == Get(instance_report, "opt_stats", EmptyDict)
    IN  IF DOMAIN opt_stats # {}
        THEN [gm_speedup_patch_base |->
                  Get(opt_stats, "gm_speedup_patch_base", None),
              gm_speedup_patch_commit |->
                  Get(opt_stats, "gm_speedup_patch_commit", None)] @@ scores
        ELSE scores

\* the scores built from a non-empty instance report
InstanceScores(instance_report) ==
    LET scores ==
            [test_passed |-> Get(instance_report, "test_passed", FALSE),
             opt_base |-> Get(instance_report, "opt_base", FALSE),
             opt_commit |-> Get(instance_report, "opt_commit", FALSE),
             opt_main |-> Get(instance_report, "opt_main", FALSE),
             patch_applied |->
                 Get(instance_report, "patch_successfully_applied", FALSE)]
        opt_stats == Get(instance_report, "opt_stats", EmptyDict)
    IN  IF DOMAIN opt_stats # {}
        THEN [gm_speedup_patch_base |->
                  Get(opt_stats, "gm_speedup_patch_base", None),
              gm_speedup_patch_commit |->
                  Get(opt_stats, "gm_speedup_patch_commit", None)] @@ scores
        ELSE scores

\* a variant that tests opt_base_ids before passed_ids
RunStatusOptBaseFirst(instance_id, instance_sets) ==
    IF instance_id \in Get(instance_sets, "opt_base_ids", {}) THEN "opt_base"
    ELSE IF instance_id \in Get(instance_sets, "passed_ids", {}) THEN "passed"
    ELSE IF instance_id \in Get(instance_sets, "test_failed_ids", {})
    THEN "test_failed"
    ELSE IF instance_id \in Get(instance_sets, "patch_failed_ids", {})
    THEN "patch_failed"
    ELSE IF instance_id \in Get(instance_sets, "error_ids", {}) THEN "error"
    ELSE Absent

\* the status the if/elif chain assigns, Absent when no branch is taken
RunStatus(instance_id, instance_sets) ==
    IF instance_id \in Get(instance_sets, "passed_ids", {}) THEN "passed"
    ELSE IF instance_id \in Get(instance_sets, "opt_base_ids", {})
    THEN "opt_base"
    ELSE IF instance_id \in Get(instance_sets, "test_failed_ids", {})
    THEN "test_failed"
    ELSE IF instance_id \in Get(instance_sets, "patch_failed_ids", {})
    THEN "patch_failed"
    ELSE IF instance_id \in Get(instance_sets, "error_ids", {}) THEN "error"
    ELSE Absent

\* scores, from the instance report file (read when logs_dir is set) and the
\* run-level report
Scores(instance_id, logs, file, report) ==
    LET instance_report == IF Truthy(logs)
                           THEN load_gso_report(file, instance_id)
                           ELSE EmptyDict
        scores == IF DOMAIN instance_report # {}
                  THEN InstanceScores(instance_report)
                  ELSE [status |-> "unknown"]
        status == IF MapTruthy(report)
                  THEN RunStatus(instance_id,
                                 Get(report.d, "instance_sets", EmptyDict))
                  ELSE Absent
    IN  IF status # Absent THEN ("status" :> status) @@ scores ELSE scores

\* the keys of metadata whose values are texts or None; the values of the
\* other keys (metrics, has_patch, scores) are never None
TextKeys ==
    {"instance_id", "agent_class", "llm_model", "repo", "api", "model_name"}

\* a variant that drops nothing
DropNoneKeepsAll(metadata) == metadata

\* {k: v for k, v in metadata.items() if v is not None}
DropNone(metadata) ==
    [k \in {x \in DOMAIN metadata : ~(x \in TextKeys /\ metadata[x] = None)}
        |-> metadata[k]]

Metadata(traj_data, scores, model_name) ==
    LET traj_metadata == traj_data.metadata
        metrics == traj_data.metrics
        instance_info == traj_data.instance
        test_result == traj_data.test_result
        m1 == [instance_id |-> traj_data.instance_id]
        m2 == IF MapTruthy(traj_metadata)
              THEN [agent_class |-> Get(traj_metadata.d, "agent_class", None),
                    llm_model |->
                        Get(Get(traj_metadata.d, "llm_config", EmptyDict),
                            "model", None)] @@ m1
              ELSE m1
        m3 == IF MapTruthy(metrics) THEN [metrics |-> metrics.d] @@ m2 ELSE m2
        m4 == IF MapTruthy(instance_info)
              THEN [repo |-> Get(instance_info.d, "repo", None),
                    api |-> Get(instance_info.d, "api", None)] @@ m3
              ELSE m3
        m5 == IF MapTruthy(test_result)
              THEN [has_patch |->
                        Truthy(Get(test_result.d, "git_patch", None))] @@ m4
              ELSE m4
        m6 == [scores |-> scores] @@ m5
        m7 == IF Truthy(model_name) THEN [model_name |-> model_name] @@ m6
              ELSE m6
    IN  DropNone(m7)

AgentRun(transcript_messages, metadata) ==
    [transcripts |-> <<[messages |-> transcript_messages]>>,
     metadata |-> metadata]

\* what a call returns or does: runs is <<>> for None and <<run>> for an
\* AgentRun; raised says that the call raised instead
Returns(runs) == [raised |-> FALSE, runs |-> runs]
Raises == [raised |-> TRUE, runs |-> <<>>]

build_agent_run(traj_data, logs, file, model_name, report) ==
    IF ~Truthy(traj_data.instance_id) THEN Returns(<<>>)
    ELSE IF traj_data.history.is # "list" \/ traj_data.history.d = <<>>
    THEN Returns(<<>>)
    ELSE LET conv == convert_openhands_history_to_messages(traj_data.history.d)
         IN  IF conv.raised THEN Raises
             ELSE IF conv.messages = <<>> THEN Returns(<<>>)
             ELSE Returns(<<AgentRun(conv.messages,
                                     Metadata(traj_data,
                                              Scores(traj_data.instance_id,
                                                     logs, file, report),
                                              model_name))>>)

-----------------------------------------------------------------------------
\* Lines of the trajectory file, and the values of the variables a
\* specification does not use

BlankLine == [kind |-> "blank", traj |-> PlainTraj(Absent, NoMap),
              report |-> Missing]
MalformedLine == [kind |-> "malformed", traj |-> PlainTraj(Absent, NoMap),
                  report |-> Missing]
ObjectLine(traj, file) == [kind |-> "object", traj |-> traj, report |-> file]

\* the lines of output.jsonl, each with the instance report file of its
\* instance: every trajectory with no report file, and the trajectory of the
\* three-event history with every report file
Lines ==
    {BlankLine, MalformedLine}
    \cup {ObjectLine(t, Missing) : t \in Trajectories}
    \cup {ObjectLine(PlainTraj("iid", List(<<UserSays, RunsTests, TestsPassed>>)),
                     f) : f \in InstanceReportFiles}

\* submission_dir.name
ModelName == "o3-run"

IdleScan ==
    /\ event = EmptyEvent
    /\ messages = <<>>
    /\ pending_tool_call = <<>>
    /\ call_counter = 1
    /\ consumed = 0
    /\ pc = "idle"
    /\ scanned = <<>>
    /\ entered = 0

IdleIngest ==
    /\ ipc = "idle"
    /\ failure = "none"
    /\ logs_dir = None
    /\ run_report = NullMap
    /\ line = BlankLine
    /\ line_no = 0
    /\ agent_runs = <<>>
    /\ parse_errors = 0
    /\ batch_size = 1
    /\ i = 0
    /\ submitted = <<>>

-----------------------------------------------------------------------------
\* The scan as a state machine: one step per event of the history

Locals == [messages |-> messages, pending_tool_call |-> pending_tool_call,
           call_counter |-> call_counter, raised |-> pc = "raised"]

Init ==
    /\ event = EmptyEvent
    /\ messages = <<>>
    /\ pending_tool_call = <<>>
    /\ call_counter = 1
    /\ consumed = 0
    /\ pc = "scan"
    /\ scanned = <<>>
    /\ entered = 1
    /\ IdleIngest

\* one pass of the loop, with e as the event
Step(e) ==
    /\ pc = "scan"
    /\ LET st == ConvertEvent(Locals, e)
       IN  /\ event' = e
           /\ messages' = st.messages
           /\ pending_tool_call' = st.pending_tool_call
           /\ call_counter' = st.call_counter
           /\ pc' = IF st.raised THEN "raised" ELSE "scan"
    /\ consumed' = consumed + 1

Consume(e) ==
    /\ consumed < MaxLen
    /\ Step(e)
    /\ UNCHANGED <<scanned, entered>>
    /\ UNCHANGED ingestVars

SkipSystem == \E e \in Events : IsSystem(e) /\ Consume(e)

UserMessageStep ==
    \E e \in Events : ~IsSystem(e) /\ IsUserMessage(e) /\ Consume(e)

AgentActionStep ==
    \E e \in Events :
        ~IsSystem(e) /\ ~IsUserMessage(e) /\ IsAgentAction(e) /\ Consume(e)

AgentMessageStep ==
    \E e \in Events :
        ~IsSystem(e) /\ ~IsUserMessage(e) /\ ~IsAgentAction(e)
        /\ IsAgentMessage(e) /\ Consume(e)

Unclassified(e) ==
    ~IsSystem(e) /\ ~IsUserMessage(e) /\ ~IsAgentAction(e) /\ ~IsAgentMessage(e)

ObservationStep ==
    \E e \in Events :
        Unclassified(e) /\ IsObservation(e, pending_tool_call) /\ Consume(e)

SkipOther ==
    \E e \in Events :
        Unclassified(e) /\ ~IsObservation(e, pending_tool_call) /\ Consume(e)

Return ==
    /\ pc = "scan"
    /\ pc' = "returned"
    /\ UNCHANGED <<event, messages, pending_tool_call, call_counter, consumed>>
    /\ UNCHANGED <<scanned, entered>>
    /\ UNCHANGED ingestVars

Next ==
    \/ SkipSystem
    \/ UserMessageStep
    \/ AgentActionStep
    \/ AgentMessageStep
    \/ ObservationStep
    \/ SkipOther
    \/ Return

Spec == Init /\ [][Next]_vars

-----------------------------------------------------------------------------
\* Calls of the function one after the other, each on a history that is
\* recorded as it is consumed

AgentSays == ActionEv("agent", "message", Map([content |-> "all done"]))
Edits == ActionEv("agent", "edit", Map([path |-> "a.py"]))
Thinks == ActionEv("agent", "think", Map([thought |-> "plan"]))
\* {"observation": "run", "content": "2 passed"}
TwoPassed == Ev(Absent, Absent, "run", NoMap, "2 passed", Absent, NoMap)

CallEvents ==
    {ActionEv("agent", "system", NoMap), UserSays, RunsTests, Edits, Thinks,
     AgentSays, ActionEv("agent", "message", Map([content |-> ""])),
     TwoPassed, ActionEv("user", "message", NullMap)}

\* a variant in which the counter of the call before is carried over
EnterKeepsCounter(st) == Conv(<<>>, <<>>, st.call_counter)

\* the entry of the function: the three locals are assigned afresh, whatever
\* a call before left
Enter(st) == InitConv

InitCalls ==
    /\ IdleScan
    /\ IdleIngest

\* the function is called: for the first time, or again after a call that
\* returned or raised
Call ==
    /\ pc \in {"idle", "returned", "raised"}
    /\ entered < MaxCalls
    /\ LET st == Enter(Locals)
       IN  /\ messages' = st.messages
           /\ pending_tool_call' = st.pending_tool_call
           /\ call_counter' = st.call_counter
    /\ pc' = "scan"
    /\ consumed' = 0
    /\ scanned' = <<>>
    /\ entered' = entered + 1
    /\ UNCHANGED event
    /\ UNCHANGED ingestVars

\* one pass of the loop, the event recorded
Scan ==
    /\ consumed < MaxHistory
    /\ \E e \in CallEvents :
           /\ Step(e)
           /\ scanned' = Append(scanned, e)
    /\ UNCHANGED entered
    /\ UNCHANGED ingestVars

NextCalls ==
    \/ Call
    \/ Scan
    \/ Return

SpecCalls == InitCalls /\ [][NextCalls]_vars

-----------------------------------------------------------------------------
\* The scan on write actions and observations whose texts are about as long
\* as the limits

\* text * n
RECURSIVE Repeat(_, _)
Repeat(text, n) ==
    IF n = 0 THEN ""
    ELSE LET half == Repeat(text, n \div 2)
         IN  half \o half \o (IF n % 2 = 1 THEN text ELSE "")

\* texts of limit - 1, limit, limit + 1 and limit + 2 characters, whose
\* characters from the limit on differ, and a short text
TextsAround(limit) ==
    {Repeat("a", limit - 1) \o rest : rest \in {"", "b", "bc", "bcd"}}
    \cup {"x = 1"}

WriteEvents ==
    {ActionEv("agent", "write", Map([path |-> "a.py", content |-> text])) :
        text \in TextsAround(PreviewLimit)}

\* observations whose text is the content, and one whose text is
\* str(extras)
LongObservationEvents ==
    {ObservationEv("agent", "write", text, NoMap) :
        text \in TextsAround(ObservationLimit)}
    \cup {ObservationEv("agent", "write", "",
                        Map([output |-> Repeat("a", ObservationLimit)]))}

WriteText == \E e \in WriteEvents : IsAgentAction(e) /\ Consume(e)

ObserveText ==
    \E e \in LongObservationEvents : Truthy(Observation(e)) /\ Consume(e)

NextTruncate ==
    \/ WriteText
    \/ ObserveText
    \/ Return

SpecTruncate == Init /\ [][NextTruncate]_vars

-----------------------------------------------------------------------------
\* run_ingestion and ingest_trajectories as a state machine

InitIngest ==
    /\ IdleScan
    /\ ipc = "run_ingestion"
    /\ failure = "none"
    /\ logs_dir = None
    /\ run_report = NullMap
    /\ line = BlankLine
    /\ line_no = 0
    /\ agent_runs = <<>>
    /\ parse_errors = 0
    /\ batch_size \in -1..MaxBatch
    /\ i = 0
    /\ submitted = <<>>

\* run_ingestion, when the submission directory or output.jsonl is missing
NoSubmission ==
    /\ ipc = "run_ingestion"
    /\ ipc' = "raised"
    /\ failure' = "FileNotFoundError"
    /\ UNCHANGED <<logs_dir, run_report, line, line_no, agent_runs, batch_size,
                   i, submitted>>
    /\ UNCHANGED <<parse_errors, scanVars>>

\* run_ingestion up to its call of ingest_trajectories: the logs directory
\* exists or not; --report-file is not given, names no file, names a file
\* that is not JSON, or names a report
RunIngestion ==
    /\ ipc = "run_ingestion"
    /\ logs_dir' \in {None, "logs"}
    /\ \E report_file \in {Missing, Malformed} \cup {Json(r) : r \in RunReports} :
           run_report' = IF report_file.is = "json" THEN report_file.d
                         ELSE NullMap
    /\ ipc' = "ingest_trajectories"
    /\ UNCHANGED <<failure, line, line_no, agent_runs, batch_size, i, submitted>>
    /\ UNCHANGED <<parse_errors, scanVars>>

\* ingest_trajectories, when DOCENT_API_KEY is not set: sys.exit(1)
NoApiKey ==
    /\ ipc = "ingest_trajectories"
    /\ ipc' = "exited"
    /\ failure' = "no DOCENT_API_KEY"
    /\ UNCHANGED <<logs_dir, run_report, line, line_no, agent_runs, batch_size,
                   i, submitted>>
    /\ UNCHANGED <<parse_errors, scanVars>>

\* load_run_report: what it finds under the submission's logs directory
load_run_report(found) ==
    IF found.is = "missing" THEN Returns(<<NullMap>>)
    ELSE IF found.is = "malformed" THEN Raises
    ELSE Returns(<<found.d>>)

\* ingest_trajectories from the client to the run-level report: when no
\* report was passed, the one under the submission's logs directory is loaded
LoadRunReport ==
    /\ ipc = "ingest_trajectories"
    /\ IF run_report.is = "null"
       THEN \E found \in {Missing, Malformed} \cup {Json(r) : r \in RunReports} :
                LET loaded == load_run_report(found)
                IN  IF loaded.raised
                    THEN /\ ipc' = "raised"
                         /\ failure' = "run report unreadable"
                         /\ UNCHANGED run_report
                    ELSE /\ ipc' = "parse"
                         /\ run_report' = loaded.runs[1]
                         /\ UNCHANGED failure
       ELSE /\ ipc' = "parse"
            /\ UNCHANGED <<run_report, failure>>
    /\ UNCHANGED <<logs_dir, line, line_no, agent_runs, batch_size, i, submitted>>
    /\ UNCHANGED <<parse_errors, scanVars>>

\* what the body of the loop over the lines appends to agent_runs
RunsOfLine(l, logs, report) ==
    IF l.kind # "object" THEN <<>>
    ELSE build_agent_run(l.traj, logs, l.report, ModelName, report).runs

\* a variant in which only a line that is not JSON is reported
LineRaisesOnlyBadJson(l, logs, report) == l.kind = "malformed"

\* the body of the loop raised, and the except clause reported the line: the
\* line is not JSON, or build_agent_run raised
LineRaises(l, logs, report) ==
    \/ l.kind = "malformed"
    \/ /\ l.kind = "object"
       /\ build_agent_run(l.traj, logs, l.report, ModelName, report).raised

\* one pass of the loop over the lines
ParseLine ==
    /\ ipc = "parse"
    /\ line_no < MaxLines
    /\ \E l \in Lines :
           /\ line' = l
           /\ agent_runs' = agent_runs \o RunsOfLine(l, logs_dir, run_report)
           /\ parse_errors' = IF LineRaises(l, logs_dir, run_report)
                              THEN parse_errors + 1
                              ELSE parse_errors
    /\ line_no' = line_no + 1
    /\ UNCHANGED <<ipc, failure, logs_dir, run_report, batch_size, i, submitted>>
    /\ UNCHANGED scanVars

\* the lines are exhausted
EndOfLines ==
    /\ ipc = "parse"
    /\ ipc' = "upload"
    /\ UNCHANGED <<failure, logs_dir, run_report, line, line_no, agent_runs,
                   batch_size, i, submitted>>
    /\ UNCHANGED <<parse_errors, scanVars>>

\* range(0, len(agent_runs), batch_size) with a batch size of 0: ValueError,
\* raised where the upload loop starts
ZeroBatchSize ==
    /\ ipc = "upload"
    /\ batch_size = 0
    /\ ipc' = "raised"
    /\ failure' = "ValueError"
    /\ UNCHANGED <<logs_dir, run_report, line, line_no, agent_runs, batch_size,
                   i, submitted>>
    /\ UNCHANGED <<parse_errors, scanVars>>

\* a variant that submits all the AgentRuns from the index on: agent_runs[i:]
SliceToEnd(runs, from, size) == SubSeq(runs, from + 1, Len(runs))

\* agent_runs[i : i + batch_size]
Slice(runs, from, size) ==
    SubSeq(runs, from + 1,
           IF from + size < Len(runs) THEN from + size ELSE Len(runs))

\* one pass of the upload loop: add_agent_runs returns or raises
UploadBatch ==
    /\ ipc = "upload"
    /\ batch_size > 0
    /\ i < Len(agent_runs)
    /\ \E ok \in BOOLEAN :
           submitted' = Append(submitted,
                               [batch |-> Slice(agent_runs, i, batch_size),
                                ok |-> ok])
    /\ i' = i + batch_size
    /\ UNCHANGED <<ipc, failure, logs_dir, run_report, line, line_no,
                   agent_runs, batch_size>>
    /\ UNCHANGED <<parse_errors, scanVars>>

\* the range is exhausted, or empty as it is with a negative batch size:
\* return collection_id
Finish ==
    /\ ipc = "upload"
    /\ batch_size # 0
    /\ batch_size < 0 \/ i >= Len(agent_runs)
    /\ ipc' = "done"
    /\ UNCHANGED <<failure, logs_dir, run_report, line, line_no, agent_runs,
                   batch_size, i, submitted>>
    /\ UNCHANGED <<parse_errors, scanVars>>

NextIngest ==
    \/ NoSubmission
    \/ RunIngestion
    \/ NoApiKey
    \/ LoadRunReport
    \/ ParseLine
    \/ EndOfLines
    \/ ZeroBatchSize
    \/ UploadBatch
    \/ Finish

SpecIngest == InitIngest /\ [][NextIngest]_vars

-----------------------------------------------------------------------------
\* Properties of the scan

HasToolCall(m) == m.role = "assistant" /\ m.tool_calls # <<>>
IsToolMessage(m) == m.role = "tool"

\* the step just taken consumed an event (event' is that event)
Consumed == consumed' = consumed + 1

\* the event is handled by rule 2, 3, 4 of the classification
Rule2(e) == ~IsSystem(e) /\ IsUserMessage(e)
Rule3(e) == ~IsSystem(e) /\ ~IsUserMessage(e) /\ IsAgentAction(e)
Rule4(e) == ~IsSystem(e) /\ ~IsUserMessage(e) /\ ~IsAgentAction(e)
            /\ IsAgentMessage(e)

\* a rule 3 event of a branch that records an invocation
IsInvocation(e) == Rule3(e) /\ e.action \notin {"think", "finish"}

\* the text of a rule 2 or rule 4 event, and the thought of a rule 3 event,
\* of an event whose args is a mapping
TextOf(e) ==
    LET a == IF e.args.is = "dict" THEN e.args.d ELSE EmptyDict
        own == IF "content" \in DOMAIN a THEN a["content"] ELSE ""
        top == IF Truthy(e.content) THEN e.content
               ELSE IF e.message = Absent THEN "" ELSE e.message
    IN  IF Truthy(own) THEN own ELSE IF Truthy(top) THEN top ELSE ""

ThoughtOf(e) ==
    LET a == IF e.args.is = "dict" THEN e.args.d ELSE EmptyDict
    IN  IF "thought" \in DOMAIN a /\ Truthy(a["thought"]) THEN a["thought"]
        ELSE ""

Last(seq) == seq[Len(seq)]

\* C1: in the message list, at every point of the scan and so in the list
\* returned, each ToolMessage carries the id of a tool call of an
\* AssistantMessage strictly before it, and no two ToolMessages carry the
\* same id.
C1_ToolMessagesReferEarlierCall ==
    \A j \in DOMAIN messages :
        IsToolMessage(messages[j]) =>
            /\ \E n \in 1..(j - 1) :
                   /\ HasToolCall(messages[n])
                   /\ \E k \in DOMAIN messages[n].tool_calls :
                          messages[n].tool_calls[k].id = messages[j].tool_call_id
            /\ \A l \in DOMAIN messages :
                   (l # j /\ IsToolMessage(messages[l])) =>
                       messages[l].tool_call_id # messages[j].tool_call_id

\* a returned list with a ToolMessage, after which a further observation
\* arrived and was not attached
C1_Witness ==
    /\ pc = "returned"
    /\ consumed = 3
    /\ Len(messages) = 2
    /\ IsToolMessage(messages[2])
    /\ Truthy(Observation(event))
    /\ Unclassified(event)

\* C2: the k-th AssistantMessage that carries a tool call carries exactly
\* one, with id call_k; the counter is one more than the number of such
\* messages and never decreases; a step of an invocation branch appends
\* exactly one AssistantMessage with exactly one tool call.
C2_CallIdsCountUp ==
    [][ LET calls == SelectSeq(messages', HasToolCall)
        IN  /\ \A k \in DOMAIN calls :
                   /\ Len(calls[k].tool_calls) = 1
                   /\ calls[k].tool_calls[1].id = "call_" \o ToString(k)
            /\ call_counter' = Len(calls) + 1
            /\ call_counter' >= call_counter
            /\ (Consumed /\ IsInvocation(event') /\ pc' = "scan") =>
                   /\ Len(messages') = Len(messages) + 1
                   /\ SubSeq(messages', 1, Len(messages)) = messages
                   /\ HasToolCall(Last(messages'))
                   /\ Last(messages').tool_calls[1].id
                          = "call_" \o ToString(call_counter)
                   /\ call_counter' = call_counter + 1
      ]_vars

\* two invocations of different branches, numbered call_1 and call_2
C2_Witness ==
    /\ Len(messages) = 3
    /\ HasToolCall(messages[1])
    /\ messages[1].tool_calls[1].function = "bash"
    /\ HasToolCall(messages[3])
    /\ messages[3].tool_calls[1].function = "edit"
    /\ messages[3].tool_calls[1].id = "call_2"
    /\ call_counter = 3

\* C3 as stated: an event that carries an observation tag while no call is
\* pending appends no message and leaves messages, pending call and counter
\* as they were.
C3_AnyTaggedEventDropped ==
    [][ (Consumed /\ Truthy(Observation(event')) /\ pending_tool_call = <<>>) =>
            /\ pc' = "scan"
            /\ UNCHANGED <<messages, pending_tool_call, call_counter>>
      ]_vars

\* C3 amended: an event that carries an observation tag and that rules 1 to 4
\* do not take (so every event with an observation tag and no action tag),
\* while no call is pending, appends no message and leaves messages, pending
\* call and counter as they were.
C3_UnmatchedObservationDropped ==
    [][ (/\ Consumed
         /\ Truthy(Observation(event'))
         /\ ~IsSystem(event')
         /\ Unclassified(event')
         /\ pending_tool_call = <<>>) =>
            /\ pc' = "scan"
            /\ UNCHANGED <<messages, pending_tool_call, call_counter>>
      ]_vars

\* an observation was consumed after a think message, with no call pending,
\* and nothing was appended for it
C3_Witness ==
    /\ consumed >= 2
    /\ pc = "scan"
    /\ Truthy(Observation(event))
    /\ ~IsSystem(event)
    /\ Unclassified(event)
    /\ pending_tool_call = <<>>
    /\ messages # <<>>
    /\ ~IsToolMessage(Last(messages))

\* C6: convert is total: the scan never raises.
C6_ConvertNeverRaises == pc # "raised"

\* C7 as stated: an event of rule 2, 3 or 4 whose text is empty or
\* whitespace-only appends no message; for an invocation the pending call is
\* still set and an id is still taken.
C7_BlankTextAppendsNothing ==
    [][ (Consumed /\ pc' = "scan") =>
            /\ ((Rule2(event') \/ Rule4(event')) /\ IsBlank(TextOf(event'))) =>
                   messages' = messages
            /\ (Rule3(event') /\ IsBlank(ThoughtOf(event'))) =>
                   /\ messages' = messages
                   /\ IsInvocation(event') =>
                          /\ pending_tool_call' # <<>>
                          /\ call_counter' = call_counter + 1
      ]_vars

\* C7 amended: an event of rule 2 or 4 whose args is null makes the scan
\* raise; otherwise one whose text is empty appends no message, and one whose
\* text is whitespace-only appends a message with that text, as for any other
\* text.  An event of rule 3 whose thought is empty or whitespace-only either
\* makes the scan raise or appends exactly one AssistantMessage; for an
\* invocation that message carries the tool call, the pending call is set to
\* it and the counter moves on.
C7_EmptyTextAppendsNothing ==
    [][ Consumed =>
            /\ (Rule2(event') \/ Rule4(event')) =>
                   IF event'.args.is = "null"
                   THEN pc' = "raised"
                   ELSE /\ pc' = "scan"
                        /\ TextOf(event') = "" => messages' = messages
                        /\ TextOf(event') # "" =>
                               /\ Len(messages') = Len(messages) + 1
                               /\ SubSeq(messages', 1, Len(messages)) = messages
                               /\ Last(messages').content = TextOf(event')
                               /\ Last(messages').role
                                      = IF Rule2(event') THEN "user"
                                        ELSE "assistant"
            /\ (Rule3(event') /\ IsBlank(ThoughtOf(event'))) =>
                   \/ pc' = "raised"
                   \/ /\ Len(messages') = Len(messages) + 1
                      /\ SubSeq(messages', 1, Len(messages)) = messages
                      /\ Last(messages').role = "assistant"
                      /\ IsInvocation(event') =>
                             /\ HasToolCall(Last(messages'))
                             /\ Last(messages').content = ThoughtOf(event')
                             /\ pending_tool_call'
                                    = <<Last(messages').tool_calls[1].function,
                                        Last(messages').tool_calls[1].id>>
                             /\ call_counter' = call_counter + 1
      ]_vars

\* a whitespace-only user text was appended, then an invocation with an empty
\* thought appended its message and set the pending call
C7_Witness ==
    /\ consumed = 2
    /\ pc = "scan"
    /\ Len(messages) = 2
    /\ messages[1] = UserMessage(" ")
    /\ IsInvocation(event)
    /\ ThoughtOf(event) = ""
    /\ HasToolCall(messages[2])
    /\ messages[2].content = ""
    /\ pending_tool_call = <<"bash", "call_1">>

-----------------------------------------------------------------------------
\* Properties of build_agent_run and of the ingestion

StatusLabels ==
    <<"passed", "opt_base", "test_failed", "patch_failed", "error">>

FiveFields ==
    {"test_passed", "opt_base", "opt_commit", "opt_main", "patch_applied"}

SpeedupFields == {"gm_speedup_patch_base", "gm_speedup_patch_commit"}

\* the key of the instance report a field of scores is taken from
ReportKey(field) ==
    IF field = "patch_applied" THEN "patch_successfully_applied" ELSE field

\* the step just taken read a line (line' is that line)
Parsed == line_no' = line_no + 1

\* the entry of the instance report that the line read last comes with:
\* the entry of its instance id in its report file when a logs directory is
\* in use, {} when there is none
EntryOf(l) ==
    IF /\ logs_dir # None
       /\ l.report.is = "json"
       /\ l.traj.instance_id \in DOMAIN l.report.d
    THEN l.report.d[l.traj.instance_id]
    ELSE EmptyDict

\* the n-th id set of the run-level report, empty when it is missing
IdSet(n) ==
    LET sets == IF run_report.is = "dict" /\ "instance_sets" \in DOMAIN run_report.d
                THEN run_report.d["instance_sets"]
                ELSE EmptyDict
    IN  IF SetNames[n] \in DOMAIN sets THEN sets[SetNames[n]] ELSE {}

\* C4: the scores of every prepared AgentRun have a status, one of the six
\* values, whatever reports were available.
C4_ScoresAlwaysHaveStatus ==
    \A n \in DOMAIN agent_runs :
        /\ "status" \in DOMAIN agent_runs[n].metadata.scores
        /\ agent_runs[n].metadata.scores["status"]
               \in {"unknown", "passed", "opt_base", "test_failed",
                    "patch_failed", "error"}

\* C5: reading a report never ends the ingestion: no run of it ends because
\* the run-level report could not be read.
C5_ReportsNeverAbort == failure # "run report unreadable"

\* C8: with a run-level report, the status of every prepared AgentRun whose
\* instance id is in one of the five id sets is the label of the first set,
\* in the order passed_ids, opt_base_ids, test_failed_ids, patch_failed_ids,
\* error_ids, that holds the id; a set the report lacks holds no id.
C8_StatusOfFirstMatchingSet ==
    \A n \in DOMAIN agent_runs :
        \A j \in 1..5 :
            (/\ agent_runs[n].metadata.instance_id \in IdSet(j)
             /\ \A k \in 1..(j - 1) :
                    agent_runs[n].metadata.instance_id \notin IdSet(k)) =>
                /\ "status" \in DOMAIN agent_runs[n].metadata.scores
                /\ agent_runs[n].metadata.scores["status"] = StatusLabels[j]

\* an AgentRun whose id is in every set but passed_ids, in a report that has
\* all five sets, and another report that lacks sets
C8_Witness ==
    /\ agent_runs # <<>>
    /\ agent_runs[1].metadata.instance_id \notin IdSet(1)
    /\ \A j \in 2..5 : agent_runs[1].metadata.instance_id \in IdSet(j)
    /\ agent_runs[1].metadata.scores["status"] = "opt_base"

\* C9 as stated: when the instance report has an entry (here: a non-empty
\* one) for the id, scores holds exactly the five fields, each from the
\* report or false, and besides them only the status; without an instance
\* report it holds none of the five.
C9_ExactlyFiveFields ==
    [][ (Parsed /\ Len(agent_runs') = Len(agent_runs) + 1) =>
            LET scores == agent_runs'[Len(agent_runs')].metadata.scores
                id == line'.traj.instance_id
                entry == EntryOf(line')
            IN  IF DOMAIN entry # {}
                THEN /\ DOMAIN scores \ {"status"} = FiveFields
                     /\ \A f \in FiveFields :
                            scores[f] = IF ReportKey(f) \in DOMAIN entry
                                        THEN entry[ReportKey(f)]
                                        ELSE FALSE
                ELSE DOMAIN scores \cap FiveFields = {}
      ]_vars

\* C9 amended: when the instance report has a non-empty entry for the id,
\* scores holds the five fields, each from the report (patch_applied from
\* patch_successfully_applied) or false; it holds the two speedup fields as
\* well exactly when the entry has a non-empty opt_stats; it holds no other
\* key but status, which is the label of a set of the run-level report that
\* holds the id when there is one and is not there when no set holds the id.
\* The entry {test_passed: true, opt_base: true} with the id in passed_ids
\* gives the scores of the example.  With no entry, or an empty one, scores
\* holds none of the five or two fields.
C9_FiveFieldsAndSpeedups ==
    [][ (Parsed /\ Len(agent_runs') = Len(agent_runs) + 1) =>
            LET scores == agent_runs'[Len(agent_runs')].metadata.scores
                id == line'.traj.instance_id
                entry == EntryOf(line')
                opt_stats == IF "opt_stats" \in DOMAIN entry
                             THEN entry["opt_stats"] ELSE EmptyDict
            IN  IF DOMAIN entry # {}
                THEN /\ FiveFields \subseteq DOMAIN scores
                     /\ DOMAIN scores \subseteq
                            FiveFields \cup SpeedupFields \cup {"status"}
                     /\ \A f \in FiveFields :
                            scores[f] = IF ReportKey(f) \in DOMAIN entry
                                        THEN entry[ReportKey(f)]
                                        ELSE FALSE
                     /\ IF DOMAIN opt_stats # {}
                        THEN /\ SpeedupFields \subseteq DOMAIN scores
                             /\ \A f \in SpeedupFields :
                                    scores[f] = IF f \in DOMAIN opt_stats
                                                THEN opt_stats[f] ELSE None
                        ELSE SpeedupFields \cap DOMAIN scores = {}
                     /\ (\E j \in 1..5 : id \in IdSet(j)) =>
                            /\ "status" \in DOMAIN scores
                            /\ \E j \in 1..5 : /\ id \in IdSet(j)
                                               /\ scores["status"] = StatusLabels[j]
                     /\ (\A j \in 1..5 : id \notin IdSet(j)) =>
                            "status" \notin DOMAIN scores
                     /\ (/\ entry = [test_passed |-> TRUE, opt_base |-> TRUE]
                         /\ id \in IdSet(1)) =>
                            scores = [test_passed |-> TRUE, opt_base |-> TRUE,
                                      opt_commit |-> FALSE, opt_main |-> FALSE,
                                      patch_applied |-> FALSE,
                                      status |-> "passed"]
                ELSE DOMAIN scores \cap (FiveFields \cup SpeedupFields) = {}
      ]_vars

\* the scores of the example, and after them scores with the speedup fields
C9_Witness ==
    /\ Len(agent_runs) = 2
    /\ agent_runs[1].metadata.scores
           = [test_passed |-> TRUE, opt_base |-> TRUE, opt_commit |-> FALSE,
              opt_main |-> FALSE, patch_applied |-> FALSE, status |-> "passed"]
    /\ line.report = Json([iid |-> FullEntry])
    /\ agent_runs[2].metadata.scores["patch_applied"] = TRUE
    /\ agent_runs[2].metadata.scores["gm_speedup_patch_commit"] = "0.9"

\* C10: a line that holds a trajectory adds no AgentRun exactly when the
\* trajectory has no instance id, has a history that is absent or empty, or
\* has a history that converts to no message; in every other case it adds
\* exactly one AgentRun, whose transcript is the converted history.  Every
\* batch submitted holds prepared AgentRuns only.
C10_DiscardedExactlyWhenIncomplete ==
    [][ /\ (Parsed /\ line'.kind = "object") =>
            LET t == line'.traj
                no_history == t.history.is # "list" \/ t.history.d = <<>>
                conv == IF no_history THEN InitConv
                        ELSE convert_openhands_history_to_messages(t.history.d)
                incomplete == \/ ~Truthy(t.instance_id)
                              \/ no_history
                              \/ (~conv.raised /\ conv.messages = <<>>)
            IN  IF incomplete
                THEN agent_runs' = agent_runs
                ELSE /\ Len(agent_runs') = Len(agent_runs) + 1
                     /\ SubSeq(agent_runs', 1, Len(agent_runs)) = agent_runs
                     /\ agent_runs'[Len(agent_runs')].transcripts
                            = <<[messages |-> conv.messages]>>
        /\ \A b \in DOMAIN submitted' :
               \A n \in DOMAIN submitted'[b].batch :
                   \E m \in DOMAIN agent_runs' :
                       agent_runs'[m] = submitted'[b].batch[n]
      ]_vars

-----------------------------------------------------------------------------
\* Properties of the loop over the lines

\* the trajectory of the line passes the three tests of build_agent_run, and
\* its history converts
Accepted(l) ==
    /\ l.kind = "object"
    /\ Truthy(l.traj.instance_id)
    /\ l.traj.history.is = "list"
    /\ l.traj.history.d # <<>>
    /\ LET conv == convert_openhands_history_to_messages(l.traj.history.d)
       IN  ~conv.raised /\ conv.messages # <<>>

\* the line is not JSON, or the conversion of its history raises
Fails(l) ==
    \/ l.kind = "malformed"
    \/ /\ l.kind = "object"
       /\ Truthy(l.traj.instance_id)
       /\ l.traj.history.is = "list"
       /\ l.traj.history.d # <<>>
       /\ convert_openhands_history_to_messages(l.traj.history.d).raised

\* C11: a line that is not JSON, or whose processing raises, is reported and
\* adds nothing; the loop goes on with the next line and the ingestion does
\* not end; the AgentRuns prepared before stay as they were, in their order;
\* a line that is accepted adds exactly its AgentRun at the end, whatever
\* lines came before it; so no line is counted twice.
C11_FailedLinesSkipped ==
    [][ Parsed =>
            /\ ipc' = "parse"
            /\ failure' = "none"
            /\ SubSeq(agent_runs', 1, Len(agent_runs)) = agent_runs
            /\ Fails(line') =>
                   /\ agent_runs' = agent_runs
                   /\ parse_errors' = parse_errors + 1
            /\ ~Fails(line') => parse_errors' = parse_errors
            /\ Accepted(line') =>
                   /\ Len(agent_runs') = Len(agent_runs) + 1
                   /\ Last(agent_runs').metadata.instance_id
                          = line'.traj.instance_id
                   /\ Last(agent_runs').transcripts[1].messages
                          = convert_openhands_history_to_messages(
                                line'.traj.history.d).messages
            /\ ~Accepted(line') => agent_runs' = agent_runs
            /\ Len(agent_runs') + parse_errors' <= line_no'
      ]_vars

\* the first line failed and was reported, the second was accepted and its
\* AgentRun is the only one prepared
C11_Witness ==
    /\ line_no = 2
    /\ parse_errors = 1
    /\ Accepted(line)
    /\ Len(agent_runs) = 1
    /\ agent_runs[1].transcripts[1].messages
           = convert_openhands_history_to_messages(line.traj.history.d).messages

-----------------------------------------------------------------------------
\* Properties of calls that follow one another

\* C12: a call starts with no message, no pending call and the counter at 1,
\* whatever the call before it left; at every point of a call the locals are
\* those that the events consumed so far give from that start, so the list a
\* call returns depends on its history alone, and its first tool call is
\* call_1.
C12_EveryCallStartsAfresh ==
    [][ /\ entered' = entered + 1 =>
               /\ messages' = <<>>
               /\ pending_tool_call' = <<>>
               /\ call_counter' = 1
        /\ pc' \in {"scan", "returned", "raised"} =>
               LET r == convert_openhands_history_to_messages(scanned')
                   invocations == SelectSeq(messages', HasToolCall)
               IN  /\ messages' = r.messages
                   /\ pending_tool_call' = r.pending_tool_call
                   /\ call_counter' = r.call_counter
                   /\ (pc' = "raised") = r.raised
                   /\ invocations # <<>> =>
                          invocations[1].tool_calls[1].id = "call_1"
      ]_vars

\* the second call was entered after a call that ended with an invocation
\* pending, and starts with the counter at 1 and no call pending
C12_Witness ==
    /\ entered = 2
    /\ pc = "scan"
    /\ consumed = 0
    /\ event = RunsTests
    /\ messages = <<>>
    /\ pending_tool_call = <<>>
    /\ call_counter = 1

\* C13: the history [user message "fix bug"; agent run action with thought
\* "run tests" and command "pytest"; observation "run" with content
\* "2 passed"] gives exactly three messages: UserMessage("fix bug"), an
\* AssistantMessage with body "run tests" and the one tool call bash, call_1,
\* {command: "pytest"}, and ToolMessage("2 passed", call_1, bash).
C13_ThreeEventExample ==
    scanned = << Ev("user", "message", Absent, Map([content |-> "fix bug"]),
                    Absent, Absent, NoMap),
                 Ev("agent", "run", Absent,
                    Map([thought |-> "run tests", command |-> "pytest"]),
                    Absent, Absent, NoMap),
                 Ev(Absent, Absent, "run", NoMap, "2 passed", Absent, NoMap) >>
    => /\ pc # "raised"
       /\ Len(messages) = 3
       /\ messages[1] = UserMessage("fix bug")
       /\ messages[2].role = "assistant"
       /\ messages[2].content = "run tests"
       /\ Len(messages[2].tool_calls) = 1
       /\ messages[2].tool_calls[1].id = "call_1"
       /\ messages[2].tool_calls[1].function = "bash"
       /\ messages[2].tool_calls[1].arguments = [command |-> "pytest"]
       /\ messages[3] = ToolMessage("2 passed", "call_1", "bash")

\* the call on the three events has returned
C13_Witness ==
    /\ pc = "returned"
    /\ scanned = <<UserSays, RunsTests, TwoPassed>>
    /\ Len(messages) = 3

-----------------------------------------------------------------------------
\* Properties of the two truncations

\* the text an observation event gives: its content, or str(extras)
ObservedText(e) == IF Truthy(e.content) THEN e.content ELSE StrOf(e.extras)

\* C14: the preview of a write action is the content when that has at most
\* 500 characters, and otherwise its first 500 characters followed by "...",
\* 503 characters in all; the content of a ToolMessage is the text of the
\* observation when that has at most 5000 characters, and otherwise its first
\* 5000 characters followed by the marker "\n... (truncated)".
C14_TruncationLaw ==
    [][ (Consumed /\ pc' = "scan") =>
            /\ Action(event') = "write" =>
                   LET text == event'.args.d["content"]
                       view == Last(messages').tool_calls[1].view
                       head == "Writing to file: " \o BQ \o "a.py" \o BQ
                               \o "\n" \o Fence \o "\n"
                       foot == "\n" \o Fence
                       preview == SubSeq(view, Len(head) + 1,
                                         Len(view) - Len(foot))
                   IN  /\ view = head \o preview \o foot
                       /\ IF Len(text) > 500
                          THEN /\ Len(preview) = 503
                               /\ SubSeq(preview, 1, 500) = SubSeq(text, 1, 500)
                               /\ SubSeq(preview, 501, 503) = "..."
                          ELSE preview = text
            /\ (Truthy(Observation(event')) /\ pending_tool_call # <<>>) =>
                   LET text == ObservedText(event')
                       out == Last(messages').content
                   IN  /\ Len(messages') = Len(messages) + 1
                       /\ IsToolMessage(Last(messages'))
                       /\ IF Len(text) > 5000
                          THEN /\ SubSeq(out, 1, 5000) = SubSeq(text, 1, 5000)
                               /\ SubSeq(out, 5001, Len(out))
                                      = "\n... (truncated)"
                               /\ Len(out) = 5016
                          ELSE out = text
      ]_vars

\* a write of 501 characters was cut to 500 and "...", and the observation
\* of 5001 characters that followed was cut to 5000 and the marker
C14_Witness ==
    /\ Len(messages) = 2
    /\ HasToolCall(messages[1])
    /\ Len(messages[1].tool_calls[1].view) = Len("Writing to file: ") + 6
                                             + 2 * Len(Fence) + 3 + 503
    /\ IsToolMessage(messages[2])
    /\ Len(event.content) = 5001
    /\ Len(messages[2].content) = 5016

-----------------------------------------------------------------------------
\* Properties of the classification and of the pending call

\* C15 as stated: no event reaches the branch of the agent's bare message.
C15_AgentMessageBranchUnreachable ==
    [][ Consumed => ~Rule4(event') ]_vars

\* C15 amended: the branch of the agent's bare message is reached by exactly
\* the events with source agent and action message, which rules 1 to 3 let
\* pass.  There the scan raises when args is null; otherwise it clears the
\* pending call, leaves the counter, and appends one AssistantMessage without
\* tool call that holds the text, or nothing when the text is empty.
C15_AgentMessageBranchTaken ==
    [][ Consumed =>
            /\ Rule4(event') <=>
                   (Source(event') = "agent" /\ Action(event') = "message")
            /\ Rule4(event') =>
                   IF event'.args.is = "null"
                   THEN pc' = "raised"
                   ELSE /\ pc' = "scan"
                        /\ pending_tool_call' = <<>>
                        /\ call_counter' = call_counter
                        /\ messages' =
                               IF TextOf(event') = "" THEN messages
                               ELSE Append(messages,
                                           AssistantMessage(TextOf(event'),
                                                            <<>>))
      ]_vars

\* after an invocation, a message of the agent was appended by rule 4 and
\* cleared the pending call
C15_Witness ==
    /\ consumed = 2
    /\ pc = "scan"
    /\ Source(event) = "agent"
    /\ Action(event) = "message"
    /\ Len(messages) = 2
    /\ HasToolCall(messages[1])
    /\ messages[2] = AssistantMessage("all done", <<>>)
    /\ pending_tool_call = <<>>

\* the event is an observation that gets attached to the call pending before
Attached(e) ==
    Unclassified(e) /\ Truthy(Observation(e)) /\ pending_tool_call # <<>>

\* the event is a think or finish action, or a bare message of the agent
ClearsPending(e) ==
    \/ Rule3(e) /\ Action(e) \in {"think", "finish"}
    \/ Rule4(e)

\* C16: the pending call is nothing or one pair of function name and id;
\* after an event that did not raise, a call is pending exactly when the
\* event recorded an invocation, or a call was pending before and the event
\* was not an observation that got attached, nor a think or finish action,
\* nor a bare message of the agent, and the pair is that of the invocation
\* or the one pending before; a ToolMessage is appended only with a call
\* pending, and so never for an observation that comes right after a think,
\* a finish or a message of the agent.
C16_PendingCallTransitions ==
    [][ /\ pending_tool_call' = <<>> \/ Len(pending_tool_call') = 2
        /\ (Consumed /\ pc' = "scan") =>
               /\ pending_tool_call' # <<>> <=>
                      \/ IsInvocation(event')
                      \/ /\ pending_tool_call # <<>>
                         /\ ~Attached(event')
                         /\ ~ClearsPending(event')
               /\ IsInvocation(event') =>
                      pending_tool_call'
                          = <<Last(messages').tool_calls[1].function,
                              Last(messages').tool_calls[1].id>>
               /\ (~IsInvocation(event') /\ pending_tool_call' # <<>>) =>
                      pending_tool_call' = pending_tool_call
               /\ (Len(messages') > Len(messages)
                   /\ IsToolMessage(Last(messages'))) =>
                      /\ pending_tool_call # <<>>
                      /\ ~ClearsPending(event)
      ]_vars

\* an invocation, then a think action, then an observation: the observation
\* found no call pending and was not attached
C16_Witness ==
    /\ consumed = 3
    /\ pc = "scan"
    /\ Unclassified(event)
    /\ Truthy(Observation(event))
    /\ Len(messages) = 2
    /\ HasToolCall(messages[1])
    /\ messages[2] = AssistantMessage("**Thinking:** plan", <<>>)
    /\ pending_tool_call = <<>>

\* the event matches no rule: rules 1 to 4 do not take it, and it is not an
\* observation with a call pending
Rule6(e) == Unclassified(e) /\ ~Attached(e)

\* C17: a system event and an event that matches no rule leave the messages,
\* the pending call and the counter as they were; a message of the user
\* leaves the pending call and the counter as they were and appends at most
\* its UserMessage (or the scan raises on its null args); so an observation
\* that arrives while a call is still pending is attached to that call.
C17_SkippedEventsKeepPending ==
    [][ Consumed =>
            /\ (IsSystem(event') \/ Rule6(event')) =>
                   /\ pc' = "scan"
                   /\ UNCHANGED <<messages, pending_tool_call, call_counter>>
            /\ Rule2(event') =>
                   /\ UNCHANGED <<pending_tool_call, call_counter>>
                   /\ IF event'.args.is = "null"
                      THEN pc' = "raised" /\ messages' = messages
                      ELSE /\ pc' = "scan"
                           /\ messages' =
                                  IF TextOf(event') = "" THEN messages
                                  ELSE Append(messages,
                                              UserMessage(TextOf(event')))
            /\ (Attached(event') /\ pc' = "scan") =>
                   /\ Len(messages') = Len(messages) + 1
                   /\ Last(messages').tool_call_id = pending_tool_call[2]
                   /\ Last(messages').function = pending_tool_call[1]
      ]_vars

\* an invocation, then a message of the user, then an observation, which was
\* attached to the invocation
C17_Witness ==
    /\ consumed = 3
    /\ Len(messages) = 3
    /\ HasToolCall(messages[1])
    /\ messages[2] = UserMessage("fix bug")
    /\ messages[3] = ToolMessage("2 passed", "call_1", "bash")
    /\ pending_tool_call = <<>>

-----------------------------------------------------------------------------
\* Properties of the metadata

\* the mapping of a sub-object of the trajectory, {} when it is absent, null
\* or empty
Sub(m) == IF MapTruthy(m) THEN m.d ELSE EmptyDict

\* the sub-object has a value other than null for the key
Supplies(m, k) == k \in DOMAIN Sub(m) /\ Sub(m)[k] # None

\* C18: the metadata of an AgentRun has no key whose value is null; it has
\* instance_id and scores; it has agent_class, repo and api exactly when the
\* trajectory's metadata or instance has a value other than null for them,
\* and llm_model exactly when the metadata has an llm_config whose model is
\* not null; besides these it has at most metrics, has_patch and model_name.
C18_MetadataHasNoNull ==
    [][ (Parsed /\ Len(agent_runs') = Len(agent_runs) + 1) =>
            LET md == Last(agent_runs').metadata
                t == line'.traj
                llm_config == IF "llm_config" \in DOMAIN Sub(t.metadata)
                              THEN Sub(t.metadata)["llm_config"]
                              ELSE EmptyDict
            IN  /\ \A k \in DOMAIN md \cap TextKeys : md[k] # None
                /\ DOMAIN md \subseteq
                       TextKeys \cup {"metrics", "has_patch", "scores"}
                /\ {"instance_id", "scores"} \subseteq DOMAIN md
                /\ md["instance_id"] = t.instance_id
                /\ "agent_class" \in DOMAIN md <=>
                       Supplies(t.metadata, "agent_class")
                /\ "agent_class" \in DOMAIN md =>
                       md["agent_class"] = t.metadata.d["agent_class"]
                /\ "llm_model" \in DOMAIN md <=>
                       ("model" \in DOMAIN llm_config
                        /\ llm_config["model"] # None)
                /\ \A k \in {"repo", "api"} :
                       /\ k \in DOMAIN md <=> Supplies(t.instance, k)
                       /\ k \in DOMAIN md => md[k] = t.instance.d[k]
                /\ "has_patch" \in DOMAIN md => md["has_patch"] \in BOOLEAN
      ]_vars

\* the AgentRun of a trajectory whose agent_class, llm model and repo are
\* null and whose metrics and test_result are null: only api is kept
C18_Witness ==
    /\ agent_runs # <<>>
    /\ line.kind = "object"
    /\ Supplies(line.traj.instance, "api")
    /\ "repo" \in DOMAIN Sub(line.traj.instance)
    /\ ~Supplies(line.traj.instance, "repo")
    /\ DOMAIN Last(agent_runs).metadata
           = {"instance_id", "api", "scores", "model_name"}

-----------------------------------------------------------------------------
\* Properties of the upload loop

\* the AgentRuns of the batches, one batch after the other
RECURSIVE Flatten(_)
Flatten(batches) ==
    IF batches = <<>> THEN <<>>
    ELSE Head(batches).batch \o Flatten(Tail(batches))

\* C19 as stated: when the ingestion is done, every prepared AgentRun was
\* submitted in exactly one batch, in the prepared order.
C19_EveryUnitSubmittedOnce ==
    ipc = "done" => Flatten(submitted) = agent_runs

\* C19 amended: with a batch size of at least 1, the b-th batch submitted is
\* the slice of the prepared AgentRuns that starts after (b - 1) * batch_size
\* of them and holds batch_size of them, or those that are left; a batch is
\* never empty; whether or not a submission fails, the loop goes on with the
\* next slice and the prepared AgentRuns stay as they are; when the
\* ingestion is done the batches, one after the other, are the prepared
\* AgentRuns.  With a batch size of 0 the ingestion raises before it submits
\* anything; with a negative batch size it is done without submitting
\* anything.
C19_BatchesCoverPreparedUnits ==
    [][ /\ batch_size' >= 1 =>
               /\ \A b \in DOMAIN submitted' :
                      LET first == (b - 1) * batch_size' + 1
                          last == IF b * batch_size' < Len(agent_runs')
                                  THEN b * batch_size'
                                  ELSE Len(agent_runs')
                      IN  /\ first <= last
                          /\ submitted'[b].batch
                                 = SubSeq(agent_runs', first, last)
               /\ Len(submitted') = Len(submitted) + 1 =>
                      /\ agent_runs' = agent_runs
                      /\ ipc' = "upload"
                      /\ failure' = failure
                      /\ SubSeq(submitted', 1, Len(submitted)) = submitted
               /\ ipc' = "done" => Flatten(submitted') = agent_runs'
        /\ batch_size' = 0 => (submitted' = <<>> /\ ipc' # "done")
        /\ batch_size' < 0 => submitted' = <<>>
      ]_vars

\* two AgentRuns were submitted one by one; the first submission failed, the
\* second was made all the same
C19_Witness ==
    /\ ipc = "done"
    /\ batch_size = 1
    /\ Len(agent_runs) = 2
    /\ Len(submitted) = 2
    /\ ~submitted[1].ok
    /\ submitted[2].ok
    /\ submitted[2].batch = <<agent_runs[2]>>

-----------------------------------------------------------------------------
\* Properties of the pairing of calls and results

\* the ToolMessages that carry the id
ResultsOf(msgs, id) ==
    {j \in DOMAIN msgs : IsToolMessage(msgs[j]) /\ msgs[j].tool_call_id = id}

\* C20: every ToolMessage carries the id of the last AssistantMessage with a
\* tool call before it, and only UserMessages stand between the two; a call
\* that is followed by another call before its result has no ToolMessage at
\* all; the observation attached last follows, in the history, an invocation
\* with no other invocation, no think or finish action and no message of the
\* agent in between, and carries the id of that invocation; two invocations
\* followed by two observations give one ToolMessage, for call_2.
C20_LatestCallWins ==
    [][ /\ \A j \in DOMAIN messages' :
               IsToolMessage(messages'[j]) =>
                   \E n \in 1..(j - 1) :
                       /\ HasToolCall(messages'[n])
                       /\ messages'[n].tool_calls[1].id
                              = messages'[j].tool_call_id
                       /\ messages'[n].tool_calls[1].function
                              = messages'[j].function
                       /\ \A k \in (n + 1)..(j - 1) :
                              messages'[k].role = "user"
        /\ \A n \in DOMAIN messages' :
               HasToolCall(messages'[n]) =>
                   LET results == ResultsOf(messages',
                                            messages'[n].tool_calls[1].id)
                       later == {m \in (n + 1)..Len(messages') :
                                     /\ HasToolCall(messages'[m])
                                     /\ \A j \in results : j > m}
                   IN  /\ Cardinality(results) <= 1
                       /\ later # {} => results = {}
        /\ (/\ Consumed
            /\ Len(messages') > Len(messages)
            /\ IsToolMessage(Last(messages'))) =>
               \E q \in 1..(Len(scanned') - 1) :
                   /\ IsInvocation(scanned'[q])
                   /\ \A k \in (q + 1)..(Len(scanned') - 1) :
                          ~Rule3(scanned'[k]) /\ ~Rule4(scanned'[k])
                   /\ Last(messages').tool_call_id
                          = "call_" \o ToString(Cardinality(
                                {k \in 1..q : IsInvocation(scanned'[k])}))
        /\ scanned' = <<RunsTests, Edits, TwoPassed, TwoPassed>> =>
               /\ Len(messages') = 3
               /\ HasToolCall(messages'[1])
               /\ HasToolCall(messages'[2])
               /\ messages'[3] = ToolMessage("2 passed", "call_2", "edit")
               /\ pending_tool_call' = <<>>
      ]_vars

\* two invocations and two observations were consumed: the first call has no
\* result, the second observation was dropped
C20_Witness ==
    /\ pc = "returned"
    /\ scanned = <<RunsTests, Edits, TwoPassed, TwoPassed>>
    /\ Len(messages) = 3
    /\ ResultsOf(messages, "call_1") = {}
    /\ ResultsOf(messages, "call_2") = {3}

-----------------------------------------------------------------------------
\* Properties of the single pass over the history

\* p is an initial part of s
IsPrefixOf(p, s) == Len(p) <= Len(s) /\ SubSeq(s, 1, Len(p)) = p

\* the conversion of the first k events of the history
OfPrefix(history, k) ==
    convert_openhands_history_to_messages(SubSeq(history, 1, k))

\* C21: one pass of the loop leaves the messages it found where they are and
\* appends at most one; so the list is never longer than the part of the
\* history consumed, and as long as no event raised, every initial part of
\* the history consumed converts, without raising, to an initial part of the
\* list, each further event adding no message or one message at the end; the
\* list of the whole part consumed is the list the scan holds.  A pass that
\* raises leaves the list as it was.
C21_SingleForwardPass ==
    [][ Consumed =>
            /\ IsPrefixOf(messages, messages')
            /\ Len(messages') <= Len(messages) + 1
            /\ Len(messages') <= Len(scanned')
            /\ pc' = "raised" => messages' = messages
            /\ pc' = "scan" =>
                   /\ OfPrefix(scanned', Len(scanned')).messages = messages'
                   /\ \A k \in 0..Len(scanned') :
                          /\ ~OfPrefix(scanned', k).raised
                          /\ IsPrefixOf(OfPrefix(scanned', k).messages,
                                        messages')
                   /\ \A k \in 1..Len(scanned') :
                          LET before == OfPrefix(scanned', k - 1).messages
                              after == OfPrefix(scanned', k).messages
                          IN  /\ IsPrefixOf(before, after)
                              /\ Len(after) - Len(before) \in {0, 1}
      ]_vars

\* a history of four events was converted to three messages, in the order of
\* the events that made them; the system event made none
C21_Witness ==
    /\ pc = "returned"
    /\ scanned = <<UserSays, ActionEv("agent", "system", NoMap), RunsTests,
                   TwoPassed>>
    /\ Len(messages) = 3
    /\ messages[1].role = "user"
    /\ HasToolCall(messages[2])
    /\ IsToolMessage(messages[3])
    /\ OfPrefix(scanned, 1).messages = <<messages[1]>>
    /\ OfPrefix(scanned, 2).messages = <<messages[1]>>
    /\ OfPrefix(scanned, 3).messages = <<messages[1], messages[2]>>

====
